---------------------------- MODULE Spec2Model ----------------------------
(***************************************************************************)
(* Schichtbuch (Django app "buch"): the entry store, the entry-update      *)
(* workflow with its legacy spare-part reconciliation, the "spare parts    *)
(* processed" toggle, likes, the detail view and the @-mentions, as a      *)
(* state machine.                                                          *)
(*                                                                         *)
(* Database rows are records; a table is a sequence indexed by the row's   *)
(* auto-increment id.  A nullable column holds None (the empty tuple) or   *)
(* a one-element tuple <<v>>.  Character strings that the code trims are   *)
(* tuples of one-character strings, so that trimming is computed.          *)
(***************************************************************************)
EXTENDS Integers, Sequences, FiniteSets, TLC

\* ------------------------------------------------------------------ bounds
MaxEntries == 1
MaxUpdates == 2
MaxTime == 1
MaxQty == 1
MaxLikes == 3
MaxNotifications == 2
MaxLen == 3

\* --------------------------------------------------------------- constants
None == << >>
Some(v) == << v >>

\* models.py STATUS_CHOICES
STATUS_CHOICES == {"OFFEN", "IN_ARB", "ERLED"}

\* django.contrib.auth users that exist in the database
\* anna is a worker, mia a Meister, olaf the administrator
Users == {"anna", "mia", "olaf"}
is_superuser(u) == u = "olaf"
is_staff(u) == u = "olaf"
groups(u) == IF u = "mia" THEN {"Meister"} ELSE {}

Descs == {"", "Lager"}
SapA == << "7" >>
SapB == << "8" >>
RawSaps == {<< >>, SapA, << " ", "7" >>, SapB}
OptQty == {None} \cup {Some(q) : q \in 0..MaxQty}

\* a comment without a mention
Comment == << "o", "k" >>

\* the title of a submission that names none
Title == << "T" >>

VARIABLES
    entries,      \* table ShiftEntry
    updates,      \* table ShiftEntryUpdate
    spare_parts,  \* table SparePart
    images,       \* table ShiftEntryImage
    videos,       \* table ShiftEntryVideo
    likes,        \* table Like; a deleted row leaves None at its id
    notifications, \* table MentionNotification
    now,          \* the wall clock
    response,     \* the answer to the last request
    inflight,     \* the requests being handled, by worker
    run,          \* history: the current run of spare-part submissions
    transitions   \* history: the changes of the stored status

vars == << entries, updates, spare_parts, images, videos, likes, notifications,
           now, response, inflight, run, transitions >>

\* the tables no view of the entry workflow writes
social == << likes, notifications >>

\* the media tables
media == << images, videos >>

\* ----------------------------------------------------------- pure helpers
\* Python: x or 0
OrZero(q) == IF q = None THEN 0 ELSE q[1]

RECURSIVE LStrip(_)
LStrip(s) == IF s # << >> /\ Head(s) = " " THEN LStrip(Tail(s)) ELSE s

RECURSIVE RStrip(_)
RStrip(s) ==
    IF s # << >> /\ s[Len(s)] = " " THEN RStrip(SubSeq(s, 1, Len(s) - 1)) ELSE s

\* Python: str.strip()
Strip(s) == RStrip(LStrip(s))

\* Python: cleaned_data.get(k), with d for a field the submission left out
Get(f, k, d) == IF k \in DOMAIN f THEN f[k] ELSE d

\* ---------------------------------------------------------------- mentions
\* User.username, character by character
username(u) ==
    CASE u = "anna" -> << "a", "n", "n", "a" >>
      [] u = "mia" -> << "m", "i", "a" >>
      [] u = "olaf" -> << "o", "l", "a", "f" >>

\* the characters of the texts that the regular expression's \w matches
WordChars == {"a", "b", "d", "f", "i", "l", "m", "n", "o", "u"}

\* a character class without the "@"
MentionCharsWithoutAt == WordChars \cup {".", "+", "-"}

\* views.py 39: the character class [\w.@+-] of MENTION_REGEX
MentionChars == WordChars \cup {".", "@", "+", "-"}

\* the last position of the longest run of class characters of s that starts
\* at position i (i - 1 if there is none): the greedy [\w.@+-]+
RECURSIVE MatchEnd(_, _)
MatchEnd(s, i) ==
    IF i <= Len(s) /\ s[i] \in MentionChars THEN MatchEnd(s, i + 1) ELSE i - 1

\* views.py 39, 50: set(MENTION_REGEX.findall(text)), scanning from position i;
\* a match is an "@" followed by at least one class character, the scan goes
\* on behind the match
RECURSIVE findall(_, _)
findall(s, i) ==
    IF i > Len(s)
    THEN {}
    ELSE IF s[i] = "@" /\ MatchEnd(s, i + 1) >= i + 1
    THEN {SubSeq(s, i + 1, MatchEnd(s, i + 1))} \cup findall(s, MatchEnd(s, i + 1) + 1)
    ELSE findall(s, i + 1)

\* views.py 42-55: the users whose username is one of the tokens
extract_mentioned_users(text) ==
    IF text = << >>
    THEN {}
    ELSE {u \in Users : username(u) \in findall(text, 1)}

\* views.py 29-32: models.py defines no class Notification, the import fails
Notification == None

\* the rows Notification.objects.create(...) adds for the users of a set
RECURSIVE notified(_, _, _, _, _)
notified(rows, sender, targets, id, source) ==
    IF targets = {}
    THEN rows
    ELSE LET u == CHOOSE v \in targets : TRUE
         IN  notified(Append(rows, [user |-> u, created_by |-> sender,
                                    entry |-> id, source |-> source,
                                    is_read |-> FALSE]),
                      sender, targets \ {u}, id, source)

\* views.py 58-83: nothing without a Notification model, else one row for
\* every mentioned user but the sender
create_mention_notifications(rows, sender, mentioned_users, id, source) ==
    IF Notification = None
    THEN rows
    ELSE notified(rows, sender, mentioned_users \ {sender}, id, source)

\* what a request's mention scan found: the text scanned, the tokens and the
\* users, and the notification table as it was before
Scan(sender, id, source, text) ==
    [sender |-> sender, entry |-> id, source |-> source, text |-> text,
     usernames |-> findall(text, 1), users |-> extract_mentioned_users(text),
     before |-> notifications]


\* ------------------------------------------------------------ permissions
\* a role check that lets every logged-in user pass
is_authenticated_only(u) == u \in Users

\* views.py: user.is_superuser or user.is_staff or
\*           user.groups.filter(name__in=["Admin", "Meister"]).exists()
is_admin_or_meister(u) ==
    is_superuser(u) \/ is_staff(u) \/ (groups(u) \cap {"Admin", "Meister"}) # {}

\* a property that reports spare parts for every entry
has_any_spare_parts_always(entry, id) == TRUE

\* models.py ShiftEntry.has_any_spare_parts, for the row `entry` with id `id`
has_any_spare_parts(entry, id) ==
    IF entry.used_spare_parts
    THEN TRUE
    ELSE \E i \in DOMAIN spare_parts : spare_parts[i].entry = id

\* ------------------------------------------------------------------ forms
\* The spare-part fields a ShiftEntryForm submission carries (forms.py
\* Meta.fields); CharField values arrive stripped.
NoSpareData ==
    [used_spare_parts |-> FALSE, spare_part_description |-> "",
     spare_part_sap_number |-> << >>, spare_part_quantity_used |-> None,
     spare_part_quantity_remaining |-> None]

BaseSpare ==
    [used_spare_parts |-> TRUE, spare_part_description |-> "Lager",
     spare_part_sap_number |-> SapA, spare_part_quantity_used |-> Some(MaxQty),
     spare_part_quantity_remaining |-> Some(0)]

EntrySpareData ==
    {NoSpareData, BaseSpare,
     [BaseSpare EXCEPT !.spare_part_sap_number = SapB,
                       !.spare_part_quantity_remaining = None],
     [BaseSpare EXCEPT !.spare_part_description = "",
                       !.spare_part_quantity_used = None]}

\* event_time stands for the combined date and time fields
EntryForms ==
    {[event_time |-> t, status |-> s, spare |-> d] :
        t \in 0..MaxTime, s \in STATUS_CHOICES, d \in {NoSpareData, BaseSpare}}

SpareEntryForms ==
    {[event_time |-> 0, status |-> "OFFEN", spare |-> d] : d \in EntrySpareData}

\* forms.py ShiftEntryForm: the title is required, and (clean) date and time
\* must not lie in the future
EntryFormValid(f) ==
    /\ Strip(Get(f, "title", Title)) # << >>
    /\ f.event_time <= now

\* The raw spare-part fields of a ShiftEntryUpdateForm submission.
SpareSubmissions ==
    [used_spare_parts : {TRUE}, spare_part_description : Descs,
     spare_part_sap_number : RawSaps,
     spare_part_quantity_used : OptQty,
     spare_part_quantity_remaining : OptQty]

NoSpareSubmissions ==
    {NoSpareData,
     [BaseSpare EXCEPT !.used_spare_parts = FALSE,
                       !.spare_part_sap_number = SapB]}

UpdateFormsOver(times, statuses, spares) ==
    {[comment |-> Comment, action_time |-> Some(t), status |-> s, spare |-> d] :
        t \in times, s \in statuses, d \in spares}

\* submissions the form rejects: no comment, a blank comment, no time, a time
\* in the future, a negative and a non-numeric quantity; each one with a new
\* status, spare-part data, a picture, a video and a mention
BrokenForm ==
    [comment |-> << "@", "m", "i", "a" >>, action_time |-> Some(0),
     status |-> "ERLED", spare |-> [BaseSpare EXCEPT !.spare_part_sap_number = SapB],
     image |-> TRUE, video |-> TRUE]

BrokenForms ==
    {[BrokenForm EXCEPT !.comment = << >>],
     [BrokenForm EXCEPT !.comment = << " " >>],
     [BrokenForm EXCEPT !.action_time = None],
     [BrokenForm EXCEPT !.action_time = Some(MaxTime + 1)],
     [BrokenForm EXCEPT !.spare.spare_part_quantity_used = Some(-1)],
     [BrokenForm EXCEPT !.spare.spare_part_quantity_remaining = Some(-1)],
     [BrokenForm EXCEPT !.spare.spare_part_quantity_used = << "1", "x" >>]}

\* submissions that vary the status and the time of the measure
UpdateForms ==
    UpdateFormsOver(0..MaxTime, STATUS_CHOICES \cup {""}, {NoSpareData, BaseSpare})
    \cup {[comment |-> << >>, action_time |-> Some(0), status |-> "ERLED",
           spare |-> BaseSpare]}

\* submissions that vary the spare-part fields
SpareUpdateForms ==
    UpdateFormsOver({0}, {""}, SpareSubmissions \cup NoSpareSubmissions)

\* forms.py clean_action_time: required, and not later than timezone.now()
clean_action_time_ok(t) == IF t = None THEN FALSE ELSE t[1] <= now

\* forms.py IntegerField(required=False, min_value=0)
\* (a value that is no number arrives as the characters typed)
quantity_ok(q) ==
    IF q = None THEN TRUE ELSE IF Len(q) = 1 THEN q[1] >= 0 ELSE FALSE

\* a validation that accepts a submission without a comment
UpdateFormValid_without_comment(f) ==
    /\ clean_action_time_ok(f.action_time)
    /\ quantity_ok(f.spare.spare_part_quantity_used)
    /\ quantity_ok(f.spare.spare_part_quantity_remaining)

\* form.is_valid() of ShiftEntryUpdateForm
UpdateFormValid(f) ==
    /\ Strip(f.comment) # << >>
    /\ clean_action_time_ok(f.action_time)
    /\ quantity_ok(f.spare.spare_part_quantity_used)
    /\ quantity_ok(f.spare.spare_part_quantity_remaining)

\* form.cleaned_data: CharField strips surrounding whitespace
cleaned_data(f) ==
    [comment |-> Strip(f.comment),
     action_time |-> f.action_time[1],
     image |-> Get(f, "image", FALSE),
     video |-> Get(f, "video", FALSE),
     status |-> f.status,
     used_spare_parts |-> f.spare.used_spare_parts,
     spare_part_description |-> f.spare.spare_part_description,
     spare_part_sap_number |-> Strip(f.spare.spare_part_sap_number),
     spare_part_quantity_used |-> f.spare.spare_part_quantity_used,
     spare_part_quantity_remaining |-> f.spare.spare_part_quantity_remaining]

\* --------------------------------------------- update_entry: entry changes
\* a status taken from the form without the fallback to the entry's status
new_status_without_fallback(entry, cd) == cd.status

\* views.py 468: form.cleaned_data.get("status") or entry.status
new_status(entry, cd) == IF cd.status # "" THEN cd.status ELSE entry.status

\* a merge that overwrites the quantity used instead of adding to it
merge_same_sap_overwriting(entry, qty_used, qty_remaining) ==
    LET set == [entry EXCEPT !.spare_part_quantity_used = Some(OrZero(qty_used))]
    IN  IF qty_remaining # None
        THEN [set EXCEPT !.spare_part_quantity_remaining = qty_remaining]
        ELSE set

\* views.py 496-504: same SAP number, add the quantity used and replace the
\* remaining stock if one was given
merge_same_sap(entry, qty_used, qty_remaining) ==
    LET old_qty_used == OrZero(entry.spare_part_quantity_used)
        add_qty == OrZero(qty_used)
        summed == [entry EXCEPT
                     !.spare_part_quantity_used = Some(old_qty_used + add_qty)]
    IN  IF qty_remaining # None
        THEN [summed EXCEPT !.spare_part_quantity_remaining = qty_remaining]
        ELSE summed

\* views.py 505-511: new or first SAP number
set_new_sap(entry, new_sap, qty_used, qty_remaining) ==
    LET named == [entry EXCEPT !.spare_part_sap_number = new_sap]
        used == IF qty_used # None
                THEN [named EXCEPT !.spare_part_quantity_used = qty_used]
                ELSE named
    IN  IF qty_remaining # None
        THEN [used EXCEPT !.spare_part_quantity_remaining = qty_remaining]
        ELSE used

\* a reset that clears the flag and keeps who confirmed and when
reset_processed_flag_only(entry) ==
    [entry EXCEPT !.spare_parts_processed = FALSE]

\* views.py 513-520: a new consumption invalidates the SAP booking
reset_processed(entry) ==
    [entry EXCEPT !.spare_parts_processed = FALSE,
                  !.spare_parts_processed_by = None,
                  !.spare_parts_processed_at = None]

\* a condition that looks at the flag alone
records_spare_parts_by_flag(cd) == cd.used_spare_parts

\* views.py 486: if used_spare_parts and spare_sap
records_spare_parts(cd) ==
    cd.used_spare_parts /\ cd.spare_part_sap_number # << >>

\* views.py 486-520: the spare-part logic on the legacy fields
spare_part_logic(entry, cd) ==
    IF records_spare_parts(cd)
    THEN LET flagged == [entry EXCEPT !.used_spare_parts = TRUE]
             existing_sap == Strip(flagged.spare_part_sap_number)
             new_sap == Strip(cd.spare_part_sap_number)
             described ==
                 IF cd.spare_part_description # ""
                    /\ flagged.spare_part_description = ""
                 THEN [flagged EXCEPT
                         !.spare_part_description = cd.spare_part_description]
                 ELSE flagged
             merged ==
                 IF existing_sap # << >> /\ existing_sap = new_sap
                 THEN merge_same_sap(described, cd.spare_part_quantity_used,
                                     cd.spare_part_quantity_remaining)
                 ELSE set_new_sap(described, new_sap, cd.spare_part_quantity_used,
                                  cd.spare_part_quantity_remaining)
         IN  reset_processed(merged)
    ELSE entry

\* views.py 466-520: the in-memory entry just before entry.save()
changed_entry(entry, cd) ==
    spare_part_logic([entry EXCEPT !.status = new_status(entry, cd)], cd)

\* views.py 534-541: ShiftEntryUpdate.objects.create(...)
new_update_row(id, u, cd, status_before, status_after) ==
    [entry |-> id, user |-> u, comment |-> cd.comment,
     action_time |-> cd.action_time,
     status_before |-> status_before, status_after |-> status_after]

\* a write that keeps one history row per entry (update_or_create)
with_update_row_replacing(rows, row) ==
    IF \E i \in DOMAIN rows : rows[i].entry = row.entry
    THEN [i \in DOMAIN rows |-> IF rows[i].entry = row.entry THEN row ELSE rows[i]]
    ELSE Append(rows, row)

\* the table after ShiftEntryUpdate.objects.create(...): one more row
with_update_row(rows, row) == Append(rows, row)

\* a structured path that creates a SparePart row for every submission
spare_part_rows_created(rows, id, u, cd) ==
    IF records_spare_parts(cd)
    THEN Append(rows, [entry |-> id, sap_number |-> cd.spare_part_sap_number,
                       description |-> cd.spare_part_description,
                       quantity_used |-> OrZero(cd.spare_part_quantity_used),
                       quantity_remaining |->
                           OrZero(cd.spare_part_quantity_remaining),
                       created_by |-> Some(u)])
    ELSE rows

\* views.py 485-529: update_entry reads and writes no SparePart row
spare_part_rows_after(rows, id, u, cd) == rows

\* ---------------------------------------- toggle_spare_parts_processed
\* a toggle that, switching off, keeps who confirmed and when
toggled_keeping_confirmer(entry, u) ==
    LET new_state == ~entry.spare_parts_processed
    IN  IF new_state
        THEN [entry EXCEPT !.spare_parts_processed = TRUE,
                           !.spare_parts_processed_by = Some(u),
                           !.spare_parts_processed_at = Some(now)]
        ELSE [entry EXCEPT !.spare_parts_processed = FALSE]

\* views.py 622-636
toggled(entry, u) ==
    LET new_state == ~entry.spare_parts_processed
    IN  IF new_state
        THEN [entry EXCEPT !.spare_parts_processed = TRUE,
                           !.spare_parts_processed_by = Some(u),
                           !.spare_parts_processed_at = Some(now)]
        ELSE [entry EXCEPT !.spare_parts_processed = FALSE,
                           !.spare_parts_processed_by = None,
                           !.spare_parts_processed_at = None]

\* ------------------------------------------------------------- responses
\* What a request answers: the view, the requesting user, the entry id of the
\* URL, the outcome, the entry row as the view loaded it, the cleaned form
\* data of a valid submission (the context of a rendered page), the fields a
\* rejected form reports, and what the request's mention scan found.
Response(op, u, id, status, before, cd, errors) ==
    [op |-> op, user |-> u, entry |-> id, status |-> status,
     before |-> before, cd |-> cd, errors |-> errors, mentioned |-> None]

NoResponse == Response("", "", 0, "", None, None, {})

\* form.errors of a ShiftEntryUpdateForm
update_form_errors(f) ==
    (IF Strip(f.comment) = << >> THEN {"comment"} ELSE {})
    \cup (IF clean_action_time_ok(f.action_time) THEN {} ELSE {"action_time"})
    \cup (IF quantity_ok(f.spare.spare_part_quantity_used)
          THEN {} ELSE {"spare_part_quantity_used"})
    \cup (IF quantity_ok(f.spare.spare_part_quantity_remaining)
          THEN {} ELSE {"spare_part_quantity_remaining"})

\* ------------------------------------------------- history of submissions
\* For every entry, the current run of spare-part submissions that carry one
\* SAP number: the number, the sum of the quantities submitted, the first
\* quantity submitted, the last remaining stock submitted, and the entry's
\* legacy fields as they were before the run.
NoRun ==
    [sap |-> << >>, count |-> 0, sum |-> 0, first |-> None, last_rem |-> None,
     used0 |-> None, sap0 |-> << >>, rem0 |-> None]

next_run(r, entry, cd) ==
    IF ~records_spare_parts(cd)
    THEN r
    ELSE IF r.sap = cd.spare_part_sap_number
    THEN [r EXCEPT !.count = r.count + 1,
                   !.sum = r.sum + OrZero(cd.spare_part_quantity_used),
                   !.last_rem = IF cd.spare_part_quantity_remaining # None
                                THEN cd.spare_part_quantity_remaining
                                ELSE r.last_rem]
    ELSE [sap |-> cd.spare_part_sap_number, count |-> 1,
          sum |-> OrZero(cd.spare_part_quantity_used),
          first |-> cd.spare_part_quantity_used,
          last_rem |-> cd.spare_part_quantity_remaining,
          used0 |-> entry.spare_part_quantity_used,
          sap0 |-> entry.spare_part_sap_number,
          rem0 |-> entry.spare_part_quantity_remaining]

\* the change of an entry's stored status from s1 to s2 by a view, remembered
with_transition(ts, op, id, s1, s2) ==
    IF s1 = s2
    THEN ts
    ELSE ts \cup {[op |-> op, entry |-> id, from |-> s1, to |-> s2]}

\* ------------------------------------------------------- requests in flight
Workers == {1, 2}

IdleRequest ==
    [pc |-> "idle", user |-> "", id |-> 0, cd |-> None, loaded |-> None,
     entry |-> None, status_before |-> ""]

\* ------------------------------------------------------------------- Init
Init ==
    /\ entries = << >>
    /\ updates = << >>
    /\ spare_parts = << >>
    /\ images = << >>
    /\ videos = << >>
    /\ likes = << >>
    /\ notifications = << >>
    /\ now = 0
    /\ response = NoResponse
    /\ inflight = [w \in Workers |-> IdleRequest]
    /\ run = << >>
    /\ transitions = {}

\* ---------------------------------------------------------------- actions
EntryIds == 1..MaxEntries

\* views.py 352: new_entry scans entry.description
scanned_text(entry) == entry.description

\* views.py 342-349, 546-552: a row of the media table for an uploaded file
with_file(rows, id, file) == IF file THEN Append(rows, [entry |-> id]) ELSE rows

\* views.py new_entry (POST): form.save(commit=False), entry.user, entry.save(),
\* the media rows and the mention scan
new_entry(u, f) ==
    /\ UNCHANGED << updates, spare_parts, likes, now, inflight, transitions >>
    /\ IF ~EntryFormValid(f)
       THEN /\ response' = Response("new_entry", u, 0, "form_errors", None, None,
                                    {"__all__"})
            /\ UNCHANGED << entries, run, media, notifications >>
       ELSE /\ Len(entries) < MaxEntries
            /\ entries' = Append(entries,
                 [user |-> u, status |-> f.status,
                  title |-> Strip(Get(f, "title", Title)),
                  description |-> Strip(Get(f, "description", << >>)),
                  used_spare_parts |-> f.spare.used_spare_parts,
                  spare_part_description |-> f.spare.spare_part_description,
                  spare_part_sap_number |-> f.spare.spare_part_sap_number,
                  spare_part_quantity_used |-> f.spare.spare_part_quantity_used,
                  spare_part_quantity_remaining |->
                      f.spare.spare_part_quantity_remaining,
                  spare_parts_processed |-> FALSE,
                  spare_parts_processed_by |-> None,
                  spare_parts_processed_at |-> None])
            /\ run' = Append(run, NoRun)
            /\ images' = with_file(images, Len(entries) + 1, Get(f, "image", FALSE))
            /\ videos' = with_file(videos, Len(entries) + 1, Get(f, "video", FALSE))
            /\ notifications' =
                   create_mention_notifications(
                       notifications, u,
                       extract_mentioned_users(scanned_text(entries'[Len(entries')])),
                       Len(entries) + 1, "entry")
            /\ response' =
                   [Response("new_entry", u, Len(entries) + 1, "redirect", None,
                             None, {})
                    EXCEPT !.mentioned =
                        Some(Scan(u, Len(entries) + 1, "entry",
                                  scanned_text(entries'[Len(entries')])))]

\* views.py update_entry (POST), the whole request
update_entry(u, id, f) ==
    /\ UNCHANGED << likes, now, inflight >>
    /\ IF id \notin DOMAIN entries
       THEN /\ response' = Response("update_entry", u, id, "not_found", None, None, {})
            /\ UNCHANGED << entries, updates, spare_parts, media, notifications,
                            run, transitions >>
       ELSE IF ~UpdateFormValid(f)
       THEN /\ response' = Response("update_entry", u, id, "form_errors",
                                    Some(entries[id]), None, update_form_errors(f))
            /\ UNCHANGED << entries, updates, spare_parts, media, notifications,
                            run, transitions >>
       ELSE LET entry == entries[id]
                cd == cleaned_data(f)
                status_before == entry.status
                saved == changed_entry(entry, cd)
            IN  /\ Len(updates) < MaxUpdates
                /\ entries' = [entries EXCEPT ![id] = saved]
                /\ spare_parts' = spare_part_rows_after(spare_parts, id, u, cd)
                /\ updates' = with_update_row(updates,
                       new_update_row(id, u, cd, status_before, new_status(entry, cd)))
                /\ run' = [run EXCEPT ![id] = next_run(run[id], entry, cd)]
                /\ transitions' =
                       with_transition(transitions, "update_entry", id, entry.status,
                                       saved.status)
                /\ images' = with_file(images, id, cd.image)
                /\ videos' = with_file(videos, id, cd.video)
                /\ notifications' =
                       create_mention_notifications(
                           notifications, u, extract_mentioned_users(cd.comment),
                           id, "update")
                /\ response' =
                       [Response("update_entry", u, id, "redirect", Some(entry),
                                 Some(cd), {})
                        EXCEPT !.mentioned = Some(Scan(u, id, "update", cd.comment))]

\* views.py update_entry 458-526: a worker loads the entry, validates the form
\* and changes the entry in memory
update_entry_load(w, u, id, f) ==
    /\ inflight[w].pc = "idle"
    /\ id \in DOMAIN entries
    /\ UpdateFormValid(f)
    /\ Len(updates) + Cardinality({v \in Workers : inflight[v].pc # "idle"})
          < MaxUpdates
    /\ OrZero(entries[id].spare_part_quantity_used) < MaxQty * MaxUpdates
    /\ inflight' = [inflight EXCEPT ![w] =
          [pc |-> "save", user |-> u, id |-> id, cd |-> Some(cleaned_data(f)),
           loaded |-> Some(entries[id]),
           entry |-> Some(changed_entry(entries[id], cleaned_data(f))),
           status_before |-> entries[id].status]]
    /\ UNCHANGED << entries, updates, spare_parts, media, social, now, response,
                    run, transitions >>

\* views.py update_entry 529: entry.save() writes the whole row
update_entry_save(w) ==
    /\ inflight[w].pc = "save"
    /\ LET id == inflight[w].id
           saved == inflight[w].entry[1]
       IN  /\ entries' = [entries EXCEPT ![id] = saved]
           /\ spare_parts' = spare_part_rows_after(spare_parts, id, inflight[w].user,
                                                   inflight[w].cd[1])
           /\ transitions' =
                  with_transition(transitions, "update_entry", id, entries[id].status,
                                  saved.status)
           /\ run' = [run EXCEPT ![id] =
                  next_run(run[id], inflight[w].loaded[1], inflight[w].cd[1])]
    /\ inflight' = [inflight EXCEPT ![w].pc = "create"]
    /\ UNCHANGED << updates, media, social, now, response >>

\* views.py update_entry 534-563: the history row is created and the request
\* answers with a redirect
update_entry_create(w) ==
    /\ inflight[w].pc = "create"
    /\ updates' = with_update_row(updates,
          new_update_row(inflight[w].id, inflight[w].user, inflight[w].cd[1],
                         inflight[w].status_before, inflight[w].entry[1].status))
    /\ images' = with_file(images, inflight[w].id, inflight[w].cd[1].image)
    /\ videos' = with_file(videos, inflight[w].id, inflight[w].cd[1].video)
    /\ notifications' =
           create_mention_notifications(
               notifications, inflight[w].user,
               extract_mentioned_users(inflight[w].cd[1].comment),
               inflight[w].id, "update")
    /\ response' =
           [Response("update_entry", inflight[w].user, inflight[w].id,
                     "redirect", inflight[w].loaded, inflight[w].cd, {})
            EXCEPT !.mentioned = Some(Scan(inflight[w].user, inflight[w].id,
                                           "update", inflight[w].cd[1].comment))]
    /\ inflight' = [inflight EXCEPT ![w] = IdleRequest]
    /\ UNCHANGED << entries, spare_parts, likes, now, run, transitions >>

\* views.py update_entry 529-541: entry.save() and the creation of the history
\* row are separate statements outside any transaction; a request that breaks
\* off between them has saved the entry and created no row
update_entry_breaks_off(w) ==
    /\ inflight[w].pc = "create"
    /\ response' = Response("update_entry", inflight[w].user, inflight[w].id,
                            "server_error", inflight[w].loaded, inflight[w].cd, {})
    /\ inflight' = [inflight EXCEPT ![w] = IdleRequest]
    /\ UNCHANGED << entries, updates, spare_parts, media, social, now, run,
                    transitions >>

\* admin.py ShiftEntryAdmin: the change form of the admin site saves an
\* entry's status for a staff user
admin_change_status(u, id, status) ==
    /\ is_staff(u)
    /\ id \in DOMAIN entries
    /\ entries' = [entries EXCEPT ![id].status = status]
    /\ transitions' =
           with_transition(transitions, "admin", id, entries[id].status, status)
    /\ response' = Response("admin_change", u, id, "redirect", Some(entries[id]),
                            None, {})
    /\ UNCHANGED << updates, spare_parts, media, social, now, inflight, run >>

\* views.py toggle_spare_parts_processed (POST)
toggle_spare_parts_processed(u, id) ==
    /\ UNCHANGED << updates, spare_parts, media, social, now, inflight, run,
                    transitions >>
    /\ IF id \notin DOMAIN entries
       THEN /\ response' = Response("toggle_spare_parts_processed", u, id,
                                    "not_found", None, None, {})
            /\ UNCHANGED entries
       ELSE /\ response' = Response("toggle_spare_parts_processed", u, id,
                                    "redirect", Some(entries[id]), None, {})
            /\ IF ~is_admin_or_meister(u)
               THEN UNCHANGED entries
               ELSE IF ~has_any_spare_parts(entries[id], id)
               THEN UNCHANGED entries
               ELSE entries' = [entries EXCEPT ![id] = toggled(entries[id], u)]

\* a save that leaves alone a row that changed since the request loaded it
entry_save_if_unchanged(current, loaded, row) ==
    IF current = loaded THEN row ELSE current

\* views.py 638: entry.save() writes every field of the row the request holds
\* in memory, whatever the stored row has become since it was loaded
entry_save(current, loaded, row) == row

\* views.py toggle_spare_parts_processed 601-636: a worker loads the entry,
\* checks the role and the spare-part usage, and inverts the flag in memory
toggle_spare_parts_processed_load(w, u, id) ==
    /\ inflight[w].pc = "idle"
    /\ id \in DOMAIN entries
    /\ UNCHANGED << entries, updates, spare_parts, media, social, now, run,
                    transitions >>
    /\ IF ~is_admin_or_meister(u)
       THEN /\ response' = Response("toggle_spare_parts_processed", u, id,
                                    "redirect", Some(entries[id]), None, {})
            /\ UNCHANGED inflight
       ELSE IF ~has_any_spare_parts(entries[id], id)
       THEN /\ response' = Response("toggle_spare_parts_processed", u, id,
                                    "redirect", Some(entries[id]), None, {})
            /\ UNCHANGED inflight
       ELSE /\ inflight' = [inflight EXCEPT ![w] =
                  [pc |-> "toggle_save", user |-> u, id |-> id, cd |-> None,
                   loaded |-> Some(entries[id]),
                   entry |-> Some(toggled(entries[id], u)),
                   status_before |-> entries[id].status]]
            /\ UNCHANGED response

\* views.py toggle_spare_parts_processed 638-640: entry.save() and the redirect
toggle_spare_parts_processed_save(w) ==
    /\ inflight[w].pc = "toggle_save"
    /\ LET id == inflight[w].id
           saved == entry_save(entries[id], inflight[w].loaded[1],
                               inflight[w].entry[1])
       IN  /\ entries' = [entries EXCEPT ![id] = saved]
           /\ transitions' =
                  with_transition(transitions, "toggle_spare_parts_processed", id,
                                  entries[id].status, saved.status)
    /\ response' = Response("toggle_spare_parts_processed", inflight[w].user,
                            inflight[w].id, "redirect", inflight[w].loaded, None,
                            {})
    /\ inflight' = [inflight EXCEPT ![w] = IdleRequest]
    /\ UNCHANGED << updates, spare_parts, media, social, now, run >>

\* ------------------------------------------------------------------ likes
\* Like.objects.filter(user=u, entry=id): the ids of the rows
like_ids(id, u) ==
    {i \in DOMAIN likes :
        IF likes[i] = None
        THEN FALSE
        ELSE likes[i][1].entry = id /\ likes[i][1].user = u}

\* the (entry, user) pairs that have a Like row
LikePairs ==
    {<< likes[i][1].entry, likes[i][1].user >> :
        i \in {j \in DOMAIN likes : likes[j] # None}}

\* a table without the unique constraint
like_is_unique_unchecked(id, u) == TRUE

\* models.py 379: unique_together = ("entry", "user"); an INSERT is accepted
\* if the pair has no row
like_is_unique(id, u) == like_ids(id, u) = {}

\* a like that is never removed
like_kept(rows, i) == rows

\* views.py 695: like.delete(), DELETE ... WHERE id = i
like_deleted(rows, i) == [rows EXCEPT ![i] = None]

\* the toggle_like request answered before this one, if it was the last request
earlier_toggle ==
    IF response.op = "toggle_like" /\ response.status = "redirect"
    THEN Some([user |-> response.user, entry |-> response.entry,
               likes |-> response.before[1].likes])
    ELSE None

\* views.py toggle_like, the whole request
toggle_like(u, id) ==
    /\ UNCHANGED << entries, updates, spare_parts, media, notifications, now,
                    inflight, run, transitions >>
    /\ IF id \notin DOMAIN entries
       THEN /\ response' = Response("toggle_like", u, id, "not_found", None, None, {})
            /\ UNCHANGED likes
       ELSE /\ IF like_ids(id, u) = {}
               THEN /\ Len(likes) < MaxLikes
                    /\ likes' = Append(likes, Some([entry |-> id, user |-> u]))
               ELSE likes' = like_deleted(likes, CHOOSE i \in like_ids(id, u) : TRUE)
            /\ response' = Response("toggle_like", u, id, "redirect",
                                    Some([likes |-> LikePairs,
                                          earlier |-> earlier_toggle]),
                                    None, {})

\* a toggle_like request in flight
LikeRequest(pc, u, id, like) == [pc |-> pc, user |-> u, id |-> id, like |-> like]

\* views.py 686-691: get_or_create looks the row up
toggle_like_get(w, u, id) ==
    /\ inflight[w].pc = "idle"
    /\ id \in DOMAIN entries
    /\ Len(likes) + Cardinality({v \in Workers : inflight[v].pc = "like_create"})
          < MaxLikes
    /\ inflight' = [inflight EXCEPT ![w] =
          IF like_ids(id, u) = {}
          THEN LikeRequest("like_create", u, id, 0)
          ELSE LikeRequest("like_delete", u, id, CHOOSE i \in like_ids(id, u) : TRUE)]
    /\ UNCHANGED << entries, updates, spare_parts, media, social, now, response,
                    run, transitions >>

\* views.py 688-693: get_or_create inserts the row; if the database rejects
\* the INSERT (IntegrityError) it fetches the row that is there
toggle_like_create(w) ==
    /\ inflight[w].pc = "like_create"
    /\ LET u == inflight[w].user
           id == inflight[w].id
       IN  IF like_is_unique(id, u)
           THEN /\ likes' = Append(likes, Some([entry |-> id, user |-> u]))
                /\ inflight' = [inflight EXCEPT ![w] = IdleRequest]
                /\ response' = Response("toggle_like", u, id, "redirect", None,
                                        None, {})
           ELSE /\ inflight' = [inflight EXCEPT ![w] =
                      LikeRequest("like_delete", u, id,
                                  CHOOSE i \in like_ids(id, u) : TRUE)]
                /\ UNCHANGED << likes, response >>
    /\ UNCHANGED << entries, updates, spare_parts, media, notifications, now, run,
                    transitions >>

\* views.py 693-697: the row existed, it is deleted
toggle_like_delete(w) ==
    /\ inflight[w].pc = "like_delete"
    /\ likes' = like_deleted(likes, inflight[w].like)
    /\ response' = Response("toggle_like", inflight[w].user, inflight[w].id,
                            "redirect", None, None, {})
    /\ inflight' = [inflight EXCEPT ![w] = IdleRequest]
    /\ UNCHANGED << entries, updates, spare_parts, media, notifications, now, run,
                    transitions >>

\* ------------------------------------------------------------ entry_detail
\* views.py 394
is_owner(entry, u) == entry.user = u

\* views.py 400: entry.updates.filter(user=user).exists()
has_updated(id, u) ==
    \E i \in DOMAIN updates : updates[i].entry = id /\ updates[i].user = u

\* a decision that leaves the update history out
can_view_spares_without_updates(entry, id, u) ==
    is_owner(entry, u) \/ is_admin_or_meister(u)

\* views.py 403
can_view_spares(entry, id, u) ==
    is_owner(entry, u) \/ is_admin_or_meister(u) \/ has_updated(id, u)

\* views.py entry_detail (GET): the context of the rendered page
entry_detail(u, id) ==
    /\ UNCHANGED << entries, updates, spare_parts, media, social, now, inflight,
                    run, transitions >>
    /\ IF id \notin DOMAIN entries
       THEN response' = Response("entry_detail", u, id, "not_found", None, None, {})
       ELSE response' =
              Response("entry_detail", u, id, "ok", Some(entries[id]),
                       Some([can_view_spares |-> can_view_spares(entries[id], id, u),
                             can_process_spares |-> is_admin_or_meister(u),
                             likes_count |->
                                 Cardinality({i \in DOMAIN likes :
                                     IF likes[i] = None
                                     THEN FALSE
                                     ELSE likes[i][1].entry = id}),
                             user_liked |-> like_ids(id, u) # {}]),
                       {})

\* ----------------------------------------------------------- notifications
\* admin.py MentionNotificationAdmin: a staff user adds a notification on the
\* admin site
admin_add_mention_notification(u, target, id, source) ==
    /\ is_staff(u)
    /\ id \in DOMAIN entries
    /\ Len(notifications) < MaxNotifications
    /\ notifications' = Append(notifications,
          [user |-> target, created_by |-> u, entry |-> id, source |-> source,
           is_read |-> FALSE])
    /\ response' = Response("admin_add", u, id, "redirect", None, None, {})
    /\ UNCHANGED << entries, updates, spare_parts, media, likes, now, inflight,
                    run, transitions >>

\* views.py mention_notifications_view: renders an empty list
mention_notifications_view(u) ==
    /\ response' = Response("mention_notifications_view", u, 0, "ok", None,
                            Some([notifications |-> << >>]), {})
    /\ UNCHANGED << entries, updates, spare_parts, media, social, now, inflight,
                    run, transitions >>

\* urls.py 29: the route notifications/ names views.notifications_inbox, which
\* views.py does not define; the request ends in an AttributeError
notifications_inbox(u) ==
    /\ response' = Response("notifications_inbox", u, 0, "server_error", None,
                            None, {})
    /\ UNCHANGED << entries, updates, spare_parts, media, social, now, inflight,
                    run, transitions >>

\* the wall clock (timezone.now()) advances
Tick ==
    /\ now < MaxTime
    /\ now' = now + 1
    /\ UNCHANGED << entries, updates, spare_parts, media, social, response,
                    inflight, run, transitions >>

Requests(creators, updaters, togglers, entry_forms, update_forms) ==
    \/ \E u \in creators, f \in entry_forms : new_entry(u, f)
    \/ \E u \in updaters, id \in EntryIds, f \in update_forms :
          update_entry(u, id, f)
    \/ \E u \in togglers, id \in EntryIds : toggle_spare_parts_processed(u, id)

\* requests of all users that vary status and time, while the clock runs
Next ==
    \/ Requests({"anna", "mia"}, {"anna", "mia"}, Users, EntryForms, UpdateForms)
    \/ Tick

Spec == Init /\ [][Next]_vars

\* requests that vary the spare-part fields, and submissions the form
\* rejects: anna reports, mia confirms
NextSpares ==
    Requests({"anna"}, {"anna"}, {"mia"}, SpareEntryForms,
             SpareUpdateForms \cup BrokenForms)

SpecSpares == Init /\ [][NextSpares]_vars

\* update_entry requests handled statement by statement by two workers, a
\* request that may break off, and the administrator on the admin site
StepEntryForms ==
    {[event_time |-> 0, status |-> "OFFEN", spare |-> NoSpareData]}

StepUpdateForms ==
    UpdateFormsOver({0}, {"", "ERLED"}, {NoSpareData})

NextSteps ==
    \/ \E f \in StepEntryForms : new_entry("anna", f)
    \/ \E w \in Workers, id \in EntryIds, f \in StepUpdateForms :
          update_entry_load(w, "anna", id, f)
    \/ \E w \in Workers : update_entry_save(w)
    \/ \E w \in Workers : update_entry_create(w)
    \/ \E w \in Workers : update_entry_breaks_off(w)
    \/ \E u \in Users, id \in EntryIds, status \in {"IN_ARB"} :
          admin_change_status(u, id, status)

SpecSteps == Init /\ [][NextSteps]_vars

\* toggle_like requests handled statement by statement by two workers
NextLikes ==
    \/ \E f \in StepEntryForms : new_entry("anna", f)
    \/ \E w \in Workers, u \in {"anna", "mia"}, id \in EntryIds :
          toggle_like_get(w, u, id)
    \/ \E w \in Workers : toggle_like_create(w)
    \/ \E w \in Workers : toggle_like_delete(w)

SpecLikes == Init /\ [][NextLikes]_vars

\* a text that mentions anna, mia and a name no user has
MentionText ==
    << "@", "a", "n", "n", "a", " ", "@", "m", "i", "a", " ", "@", "b", "o", "b" >>

\* a title that mentions mia
MentionTitle == << "@", "m", "i", "a" >>

SocialEntryForms ==
    {[event_time |-> 0, status |-> "OFFEN", spare |-> NoSpareData,
      title |-> t, description |-> d] :
        t \in {Title, MentionTitle}, d \in {<< >>, MentionText}}

SocialUpdateForms ==
    {[comment |-> c, action_time |-> Some(0), status |-> "", spare |-> NoSpareData] :
        c \in {Comment, MentionText}}

\* entries and updates with mentions, likes, the detail page and the
\* notification pages
NextSocial ==
    \/ \E u \in {"anna", "mia"}, f \in SocialEntryForms : new_entry(u, f)
    \/ \E u \in {"anna", "olaf"}, id \in EntryIds, f \in SocialUpdateForms :
          update_entry(u, id, f)
    \/ \E u \in {"anna", "mia"}, id \in EntryIds : toggle_like(u, id)
    \/ \E u \in Users, id \in EntryIds : entry_detail(u, id)
    \/ \E u \in Users, target \in {"anna", "mia"}, id \in EntryIds :
          admin_add_mention_notification(u, target, id, "ENTRY")
    \/ \E u \in {"anna"} : mention_notifications_view(u)
    \/ \E u \in {"anna"} : notifications_inbox(u)

SpecSocial == Init /\ [][NextSocial]_vars

\* the characters of the short texts: an "@", a word character, a dot and a
\* blank
TextChars == {"@", "a", ".", " "}

\* every text of at most MaxLen of these characters
ShortTexts == UNION {[1..n -> TextChars] : n \in 0..MaxLen}

MentionEntryForms ==
    {[event_time |-> 0, status |-> "OFFEN", spare |-> NoSpareData,
      title |-> t, description |-> d] :
        t \in {Title, MentionTitle}, d \in ShortTexts \cup {MentionText}}

MentionUpdateForms ==
    {[comment |-> c, action_time |-> Some(0), status |-> "", spare |-> NoSpareData] :
        c \in {MentionText, << "@", "a", "@", "m", "i", "a" >>}}

\* entries and updates whose texts are scanned for mentions
NextMentions ==
    \/ \E f \in MentionEntryForms : new_entry("olaf", f)
    \/ \E id \in EntryIds, f \in MentionUpdateForms : update_entry("olaf", id, f)

SpecMentions == Init /\ [][NextMentions]_vars

\* an entry that reports spare parts, update_entry requests that report none,
\* and the toggle of two confirmers, handled statement by statement by two
\* workers while the clock runs
RaceEntryForms ==
    {[event_time |-> 0, status |-> "OFFEN", spare |-> BaseSpare]}

PlainUpdateForms == UpdateFormsOver({0}, {""}, {NoSpareData})

NextToggleRaces ==
    \/ \E f \in RaceEntryForms : new_entry("anna", f)
    \/ \E w \in Workers, id \in EntryIds, f \in PlainUpdateForms :
          update_entry_load(w, "anna", id, f)
    \/ \E w \in Workers : update_entry_save(w)
    \/ \E w \in Workers : update_entry_create(w)
    \/ \E w \in Workers, u \in {"mia", "olaf"}, id \in EntryIds :
          toggle_spare_parts_processed_load(w, u, id)
    \/ \E w \in Workers : toggle_spare_parts_processed_save(w)
    \/ Tick

SpecToggleRaces == Init /\ [][NextToggleRaces]_vars

\* update_entry requests for an entry that reports spare parts, handled
\* statement by statement by two workers: each one keeps or changes the status
\* and reports the entry's SAP number again or no spare part
RaceUpdateForms == UpdateFormsOver({0}, {"", "ERLED"}, {NoSpareData, BaseSpare})

NextUpdateRaces ==
    \/ \E f \in RaceEntryForms : new_entry("anna", f)
    \/ \E w \in Workers, u \in {"anna", "mia"}, id \in EntryIds,
          f \in RaceUpdateForms :
          update_entry_load(w, u, id, f)
    \/ \E w \in Workers : update_entry_save(w)
    \/ \E w \in Workers : update_entry_create(w)

SpecUpdateRaces == Init /\ [][NextUpdateRaces]_vars

\* ----------------------------------------------------------------- claims
\* the last request was a validated update_entry submission
UpdateAnswered ==
    /\ response.op = "update_entry"
    /\ response.status = "redirect"

\* the last request was a validated update_entry submission with
\* used_spare_parts true and a non-empty SAP number
SpareUsageAnswered ==
    /\ UpdateAnswered
    /\ response.cd[1].used_spare_parts
    /\ response.cd[1].spare_part_sap_number # << >>

\* C1: after a validated update_entry submission with used_spare_parts true
\* and a non-empty SAP number the entry has spare_parts_processed = false and
\* neither a confirming user nor a confirmation time, whatever they were.
C1_ProcessedReset ==
    SpareUsageAnswered =>
        /\ entries[response.entry].spare_parts_processed = FALSE
        /\ entries[response.entry].spare_parts_processed_by = None
        /\ entries[response.entry].spare_parts_processed_at = None

\* C1 witness: such a submission met an entry that was confirmed by a user
C1_Witness ==
    /\ SpareUsageAnswered
    /\ response.before[1].spare_parts_processed
    /\ response.before[1].spare_parts_processed_by # None
    /\ response.before[1].spare_parts_processed_at # None
    /\ ~entries[response.entry].spare_parts_processed

\* the remaining stock a run of submissions leaves: the last one submitted,
\* or the stock before the run if none was submitted
RunRemaining(r) == IF r.last_rem # None THEN r.last_rem ELSE r.rem0

\* the quantity an entry carries into a run of submissions for one SAP
\* number: what it held if it already carried that number or if the first
\* submission gave no quantity, and nothing otherwise
RunCarried(r) ==
    IF Strip(r.sap0) = r.sap \/ r.first = None THEN OrZero(r.used0) ELSE 0

C3_StructuredRow ==
    \A id \in DOMAIN entries :
        run[id].count > 0 =>
            \E i \in DOMAIN spare_parts :
                /\ spare_parts[i].entry = id
                /\ spare_parts[i].sap_number = run[id].sap
                /\ spare_parts[i].quantity_used >= run[id].sum
                /\ run[id].last_rem # None =>
                      spare_parts[i].quantity_remaining = run[id].last_rem[1]

\* C4: there is at most one SparePart row per (entry, SAP number).
C4_OneRowPerSap ==
    \A i, j \in DOMAIN spare_parts :
        (/\ spare_parts[i].entry = spare_parts[j].entry
         /\ spare_parts[i].sap_number = spare_parts[j].sap_number) => i = j

\* C4 witness: the same SAP number was submitted twice for one entry
C4_Witness ==
    \E id \in DOMAIN entries :
        /\ run[id].count >= 2
        /\ Cardinality({i \in DOMAIN spare_parts : spare_parts[i].entry = id}) <= 1

\* the last request was a toggle_spare_parts_processed that found its entry
ToggleAnswered ==
    /\ response.op = "toggle_spare_parts_processed"
    /\ response.before # None

\* superuser, staff, or member of group Admin or Meister
HoldsRole(u) ==
    \/ is_superuser(u)
    \/ is_staff(u)
    \/ "Admin" \in groups(u)
    \/ "Meister" \in groups(u)

\* the entry has no recorded spare-part usage
NoSpareUsage(entry, id) ==
    /\ ~entry.used_spare_parts
    /\ ~\E i \in DOMAIN spare_parts : spare_parts[i].entry = id

\* C5: toggle_spare_parts_processed on an entry without recorded spare-part
\* usage leaves the entry as it was, for any requesting user.
C5_ToggleWithoutSparesIsNoOp ==
    (ToggleAnswered /\ NoSpareUsage(response.before[1], response.entry)) =>
        entries[response.entry] = response.before[1]

\* C5 witness: a Meister toggled an entry without spare-part usage
C5_Witness ==
    /\ ToggleAnswered
    /\ HoldsRole(response.user)
    /\ NoSpareUsage(response.before[1], response.entry)
    /\ entries[response.entry] = response.before[1]

\* C6: a toggle_spare_parts_processed request of a user without a role
\* leaves the entry as it was and answers with a redirect.
C6_ToggleNeedsRole ==
    (ToggleAnswered /\ ~HoldsRole(response.user)) =>
        /\ entries[response.entry] = response.before[1]
        /\ response.status = "redirect"

\* C6 witness: the creator of an entry with spare-part usage, holding no
\* role, toggled it
C6_Witness ==
    /\ ToggleAnswered
    /\ ~HoldsRole(response.user)
    /\ response.before[1].user = response.user
    /\ response.before[1].used_spare_parts
    /\ response.status = "redirect"

\* C7: an authorized toggle on an entry with spare-part usage inverts
\* spare_parts_processed; switched on it records the requesting user and the
\* current time, switched off it clears both.
C7_ToggleInverts ==
    [][\A u \in Users, id \in DOMAIN entries :
         (/\ toggle_spare_parts_processed(u, id)
          /\ HoldsRole(u)
          /\ ~NoSpareUsage(entries[id], id))
         => /\ entries'[id].spare_parts_processed = ~entries[id].spare_parts_processed
            /\ entries'[id].spare_parts_processed =>
                  /\ entries'[id].spare_parts_processed_by = Some(u)
                  /\ entries'[id].spare_parts_processed_at = Some(now)
            /\ ~entries'[id].spare_parts_processed =>
                  /\ entries'[id].spare_parts_processed_by = None
                  /\ entries'[id].spare_parts_processed_at = None
            /\ entries' = [entries EXCEPT ![id] = entries'[id]]]_vars

\* C7 witness: a confirmed entry was switched off again by a Meister
C7_Witness ==
    /\ ToggleAnswered
    /\ HoldsRole(response.user)
    /\ response.before[1].spare_parts_processed
    /\ response.before[1].spare_parts_processed_at = Some(MaxTime)
    /\ ~entries[response.entry].spare_parts_processed
    /\ entries[response.entry].spare_parts_processed_by = None

\* row i comes before row j in the ordering (action_time, id)
Precedes(rows, i, j) ==
    \/ rows[i].action_time < rows[j].action_time
    \/ rows[i].action_time = rows[j].action_time /\ i < j

\* C8: appending an update leaves every existing ShiftEntryUpdate row as it
\* was and the existing rows in the same order under (action_time, id).
C8_AppendOnly ==
    [][(now' = now /\ response'.op = "update_entry") =>
         /\ \A i \in DOMAIN updates :
               i \in DOMAIN updates' /\ updates'[i] = updates[i]
         /\ \A i, j \in DOMAIN updates :
               Precedes(updates, i, j) <=> Precedes(updates', i, j)]_vars

\* C8 witness: an entry has two rows, the later one for an earlier measure
C8_Witness ==
    /\ UpdateAnswered
    /\ Len(updates) >= 2
    /\ updates[1].entry = updates[2].entry
    /\ updates[2].action_time < updates[1].action_time
    /\ updates[2].status_after # updates[1].status_after

\* C9: a validated update_entry submission creates exactly one row, with the
\* entry's status before and after the submission; a supplied status becomes
\* the entry's status, none supplied leaves it.
C9_StatusRecorded ==
    [][(now' = now /\ response'.op = "update_entry"
                   /\ response'.status = "redirect") =>
         LET id == response'.entry
             cd == response'.cd[1]
             row == updates'[Len(updates')]
         IN  /\ Len(updates') = Len(updates) + 1
             /\ \A i \in DOMAIN updates : updates'[i] = updates[i]
             /\ row.entry = id
             /\ row.status_before = entries[id].status
             /\ row.status_after = entries'[id].status
             /\ cd.status # "" => entries'[id].status = cd.status
             /\ cd.status = "" =>
                   /\ entries'[id].status = entries[id].status
                   /\ row.status_before = row.status_after]_vars

\* C9 witness: a submission changed the status and the row records it
C9_Witness ==
    /\ UpdateAnswered
    /\ response.cd[1].status # ""
    /\ response.cd[1].status # response.before[1].status
    /\ entries[response.entry].status = response.cd[1].status
    /\ updates[Len(updates)].status_before = response.before[1].status
    /\ updates[Len(updates)].status_after = response.cd[1].status

\* no update_entry request is being handled
NoRequestInFlight == \A w \in Workers : inflight[w].pc = "idle"

\* C10: every change of an entry's stored status from s1 to s2 has, once the
\* operation has ended, a ShiftEntryUpdate row of that entry with
\* status_before = s1 and status_after = s2.
C10_StatusChangesRecorded ==
    NoRequestInFlight =>
        \A t \in transitions :
            \E i \in DOMAIN updates :
                /\ updates[i].entry = t.entry
                /\ updates[i].status_before = t.from
                /\ updates[i].status_after = t.to

\* C10, for update_entry alone: every change of the stored status made by
\* an update_entry request has its row once no request is being handled,
\* also when the request broke off after entry.save().
C10_UpdateChangesRecorded ==
    NoRequestInFlight =>
        \A t \in transitions :
            t.op = "update_entry" =>
                \E i \in DOMAIN updates :
                    /\ updates[i].entry = t.entry
                    /\ updates[i].status_before = t.from
                    /\ updates[i].status_after = t.to

\* the submission fails validation: no comment, no action_time, an
\* action_time later than the current time, or a negative or non-numeric
\* quantity
NotAQuantity(q) ==
    IF q = None THEN FALSE ELSE IF Len(q) = 1 THEN q[1] < 0 ELSE TRUE

FailsValidation(f) ==
    IF Strip(f.comment) = << >> \/ f.action_time = None
    THEN TRUE
    ELSE \/ f.action_time[1] > now
         \/ NotAQuantity(f.spare.spare_part_quantity_used)
         \/ NotAQuantity(f.spare.spare_part_quantity_remaining)

\* C11: an update_entry submission that fails validation leaves the entry,
\* the ShiftEntryUpdate rows, the SparePart rows, the media rows and the
\* notifications as they were.
C11_InvalidUpdateIsNoOp ==
    [][\A u \in Users, id \in DOMAIN entries, f \in BrokenForms :
         (FailsValidation(f) /\ update_entry(u, id, f)) =>
             /\ entries' = entries
             /\ updates' = updates
             /\ spare_parts' = spare_parts
             /\ images' = images
             /\ videos' = videos
             /\ notifications' = notifications]_vars

\* C11 witness: a submission with a new status, spare-part data and files was
\* rejected for its quantity, on an entry that has a history row
C11_Witness ==
    /\ response.op = "update_entry"
    /\ response.status = "form_errors"
    /\ response.errors = {"spare_part_quantity_used"}
    /\ Len(updates) > 0
    /\ entries[response.entry] = response.before[1]
    /\ entries[response.entry].status # "ERLED"
    /\ images = << >>

\* the spare-part state of an entry row
SpareState(entry) ==
    << entry.used_spare_parts, entry.spare_part_description,
       entry.spare_part_sap_number, entry.spare_part_quantity_used,
       entry.spare_part_quantity_remaining, entry.spare_parts_processed,
       entry.spare_parts_processed_by, entry.spare_parts_processed_at >>

\* the submission has used_spare_parts false or an empty SAP number
WithoutSpareUsage(cd) ==
    ~cd.used_spare_parts \/ cd.spare_part_sap_number = << >>

\* C12: a validated update_entry submission with used_spare_parts false, or
\* with an empty SAP number, leaves the entry's spare-part fields, its
\* processed flag with confirmer and time, and all SparePart rows unchanged.
C12_NoReconciliation ==
    [][(/\ now' = now
        /\ response'.op = "update_entry"
        /\ response'.status = "redirect"
        /\ WithoutSpareUsage(response'.cd[1]))
       => /\ SpareState(entries'[response'.entry])
                = SpareState(entries[response'.entry])
          /\ spare_parts' = spare_parts]_vars

\* C12 witness: a submission with the flag set, quantities and no SAP number
\* met a confirmed entry with spare-part data, which is as it was
C12_Witness ==
    /\ UpdateAnswered
    /\ response.cd[1].used_spare_parts
    /\ response.cd[1].spare_part_sap_number = << >>
    /\ response.cd[1].spare_part_quantity_used # None
    /\ response.cd[1].spare_part_quantity_remaining # None
    /\ response.before[1].spare_parts_processed
    /\ response.before[1].spare_part_sap_number # << >>
    /\ SpareState(entries[response.entry]) = SpareState(response.before[1])

\* C13: after a validated submission with spare-part usage whose SAP number
\* differs from the SAP number the entry carried, the entry's SAP number,
\* description, quantity used and remaining stock are the submission's.
C13_ReplacedWholesale ==
    (/\ SpareUsageAnswered
     /\ Strip(response.before[1].spare_part_sap_number) # << >>
     /\ Strip(response.before[1].spare_part_sap_number)
           # response.cd[1].spare_part_sap_number)
    => /\ entries[response.entry].spare_part_sap_number
             = response.cd[1].spare_part_sap_number
       /\ entries[response.entry].spare_part_description
             = response.cd[1].spare_part_description
       /\ entries[response.entry].spare_part_quantity_used
             = response.cd[1].spare_part_quantity_used
       /\ entries[response.entry].spare_part_quantity_remaining
             = response.cd[1].spare_part_quantity_remaining

\* C14: there is at most one Like row per (entry, user) pair, whatever
\* toggle_like requests were made, also by one user on one entry at a time.
C14_OneLikePerPair ==
    \A i, j \in DOMAIN likes :
        (/\ likes[i] # None
         /\ likes[j] # None
         /\ likes[i] = likes[j]) => i = j

\* C14 witness: two requests of one user on one entry both found no like;
\* the first has created its row, the second is about to insert
C14_Witness ==
    \E w \in Workers, i \in DOMAIN likes :
        /\ inflight[w].pc = "like_create"
        /\ likes[i] = Some([entry |-> inflight[w].id, user |-> inflight[w].user])

\* the last two requests were toggle_like requests of one user on one entry
ToggledTwice ==
    IF response.op = "toggle_like" /\ response.status = "redirect"
    THEN IF response.before[1].earlier = None
         THEN FALSE
         ELSE /\ response.before[1].earlier[1].user = response.user
              /\ response.before[1].earlier[1].entry = response.entry
    ELSE FALSE

\* a set of pairs with the pair p added if absent and removed if present
Flipped(pairs, p) == IF p \in pairs THEN pairs \ {p} ELSE pairs \cup {p}

\* C15: two consecutive toggle_like requests of one user on one entry leave
\* the set of likes as it was before the first: the first adds the user's
\* like if absent and removes it if present, the second undoes that, and no
\* other user's like changes.
C15_ToggleTwiceRestores ==
    ToggledTwice =>
        LET first == response.before[1].earlier[1].likes
            between == response.before[1].likes
            p == << response.entry, response.user >>
        IN  /\ between = Flipped(first, p)
            /\ LikePairs = Flipped(between, p)
            /\ LikePairs = first

\* C15 witness: a user liked and unliked an entry that another user likes
C15_Witness ==
    /\ ToggledTwice
    /\ << response.entry, response.user >> \notin LikePairs
    /\ << response.entry, response.user >> \in response.before[1].likes
    /\ \E u \in Users : u # response.user /\ << response.entry, u >> \in LikePairs

\* C16: the detail page shows spare-part data (can_view_spares) exactly to
\* the entry's creator, to a superuser, staff user or member of group Admin
\* or Meister, and to a user who has a ShiftEntryUpdate row on that entry.
C16_SparesVisibility ==
    (response.op = "entry_detail" /\ response.status = "ok") =>
        (response.cd[1].can_view_spares <=>
            \/ entries[response.entry].user = response.user
            \/ HoldsRole(response.user)
            \/ \E i \in DOMAIN updates :
                  /\ updates[i].entry = response.entry
                  /\ updates[i].user = response.user)

\* C16 witness: a user without a role who did not create the entry sees the
\* spare-part data after an update of theirs
C16_Witness ==
    /\ response.op = "entry_detail"
    /\ response.status = "ok"
    /\ ~HoldsRole(response.user)
    /\ entries[response.entry].user # response.user
    /\ response.cd[1].can_view_spares

\* C17: a request whose text mentions users creates exactly one notification,
\* for the entry and the source, for every mentioned existing user other than
\* the acting user, and no other.
C17_MentionsNotified ==
    response.mentioned # None =>
        LET scan == response.mentioned[1]
            targets == scan.users \ {scan.sender}
            new == (Len(scan.before) + 1)..Len(notifications)
        IN  /\ Len(notifications) = Len(scan.before) + Cardinality(targets)
            /\ \A u \in targets :
                  \E i \in new :
                      /\ notifications[i].user = u
                      /\ notifications[i].entry = scan.entry
                      /\ notifications[i].source
                            \in (IF scan.source = "entry"
                                 THEN {"entry", "ENTRY"}
                                 ELSE {"update", "UPDATE"})

\* C18: after a user has viewed the notification inbox all notifications of
\* that user are read.
C18_InboxMarksRead ==
    response.op \in {"mention_notifications_view", "notifications_inbox"} =>
        \A i \in DOMAIN notifications :
            notifications[i].user = response.user => notifications[i].is_read

\* C19: after an entry was created whose title mentions an existing user
\* other than the creator, that user has a notification for the entry.
C19_TitleMentionsNotified ==
    (response.op = "new_entry" /\ response.status = "redirect") =>
        \A u \in extract_mentioned_users(entries[response.entry].title)
                 \ {response.user} :
            \E i \in DOMAIN notifications :
                /\ notifications[i].user = u
                /\ notifications[i].entry = response.entry

\* a character a token may consist of: a word character, a dot, a plus or a
\* hyphen
PlainTokenChar(c) == c \in WordChars \cup {".", "+", "-"}

\* a character of a user name: a word character, a dot, an "@", a plus or a
\* hyphen
NameChar(c) == c \in WordChars \cup {".", "+", "-"} \/ c = "@"

\* the tokens of a text: for every "@" at a position p that no earlier "@"
\* reaches through name characters alone, the name characters that follow,
\* up to the last one at b, if there is any
Tokens(text) ==
    {SubSeq(text, pb[1] + 1, pb[2]) :
        pb \in {qb \in (1..Len(text)) \X (1..Len(text)) :
                  /\ qb[1] < qb[2]
                  /\ text[qb[1]] = "@"
                  /\ \A k \in (qb[1] + 1)..qb[2] : NameChar(text[k])
                  /\ qb[2] < Len(text) => ~NameChar(text[qb[2] + 1])
                  /\ ~\E q \in 1..(qb[1] - 1) :
                        /\ text[q] = "@"
                        /\ \A k \in q..qb[1] : NameChar(text[k])}}

\* C20 as claimed: every token the mention scan finds follows an "@" and
\* consists only of word characters, dots, plus and hyphen; none holds an "@".
C20_TokensWithoutAt ==
    response.mentioned # None =>
        \A t \in response.mentioned[1].usernames :
            \A k \in DOMAIN t : PlainTokenChar(t[k]) /\ t[k] # "@"

\* C20 amended: the tokens the mention scan finds are exactly the longest
\* runs of word characters, dots, "@", plus and hyphen that follow an "@",
\* taken from left to right without overlap.
C20_TokensOfNameChars ==
    response.mentioned # None =>
        response.mentioned[1].usernames = Tokens(response.mentioned[1].text)

\* C20 witness: a text with two "@" yields one token that holds the second
C20_Witness ==
    /\ response.mentioned # None
    /\ response.mentioned[1].text = << "@", "a", "@", "m", "i", "a" >>
    /\ response.mentioned[1].usernames = {<< "a", "@", "m", "i", "a" >>}
    /\ response.mentioned[1].users = {}

\* the processed flag of an entry with its confirmer and its timestamp
ProcessedState(entry) ==
    << entry.spare_parts_processed, entry.spare_parts_processed_by,
       entry.spare_parts_processed_at >>

\* C21: whenever a worker completes a toggle of the processed flag, whatever
\* another request on the same entry has written since the worker loaded the
\* row, the request is answered with the redirect (it is neither rejected nor
\* retried) and the stored flag, confirmer and timestamp are exactly the ones
\* this request computed: the request that saves last decides the final state
C21_LastSaveWins ==
    [][\A w \in Workers :
          (inflight[w].pc = "toggle_save" /\ inflight'[w].pc = "idle")
          => /\ response'.op = "toggle_spare_parts_processed"
             /\ response'.user = inflight[w].user
             /\ response'.status = "redirect"
             /\ ProcessedState(entries'[inflight[w].id])
                   = ProcessedState(inflight[w].entry[1])
             /\ entries'[inflight[w].id].spare_parts_processed
                   = ~inflight[w].loaded[1].spare_parts_processed]_vars

\* two confirmers loaded the unprocessed entry, one has saved and was
\* redirected, the other is about to save over that write
C21_Witness ==
    /\ response.op = "toggle_spare_parts_processed"
    /\ response.status = "redirect"
    /\ response.before # None
    /\ response.entry \in DOMAIN entries
    /\ ~response.before[1].spare_parts_processed
    /\ ProcessedState(entries[response.entry])
         = << TRUE, Some(response.user), Some(0) >>
    /\ now = 1
    /\ \E w \in Workers :
          /\ inflight[w].pc = "toggle_save"
          /\ inflight[w].id = response.entry
          /\ inflight[w].user # response.user
          /\ ~inflight[w].loaded[1].spare_parts_processed
          /\ inflight[w].entry[1].spare_parts_processed_at = Some(1)

\* C22: in every state reached through entry creation, update_entry and the
\* toggle, an entry whose processed flag is off has no confirmer and no
\* confirmation timestamp
C22_UnprocessedHasNoConfirmer ==
    \A id \in DOMAIN entries :
        ~entries[id].spare_parts_processed
        => /\ entries[id].spare_parts_processed_by = None
           /\ entries[id].spare_parts_processed_at = None

\* a confirmer has switched off the flag of an entry that was confirmed
C22_Witness ==
    /\ response.op = "toggle_spare_parts_processed"
    /\ response.before # None
    /\ response.entry \in DOMAIN entries
    /\ response.before[1].spare_parts_processed
    /\ response.before[1].spare_parts_processed_by # None
    /\ ~entries[response.entry].spare_parts_processed

\* C23: an entry whose processed flag is on has recorded spare-part usage:
\* its used_spare_parts field is true or it has at least one SparePart row
C23_ProcessedHasSpareUsage ==
    \A id \in DOMAIN entries :
        entries[id].spare_parts_processed
        => \/ entries[id].used_spare_parts
           \/ \E i \in DOMAIN spare_parts : spare_parts[i].entry = id

\* a confirmer has switched on the flag of an entry that reports spare parts
\* and has been updated
C23_Witness ==
    /\ response.op = "toggle_spare_parts_processed"
    /\ response.before # None
    /\ response.entry \in DOMAIN entries
    /\ ~response.before[1].spare_parts_processed
    /\ entries[response.entry].spare_parts_processed
    /\ entries[response.entry].used_spare_parts
    /\ \E i \in DOMAIN updates : updates[i].entry = response.entry

\* C24: once two update_entry requests that both report the SAP number the
\* entry already had have completed, however their load, merge and save steps
\* interleaved, the entry's quantity used is the quantity it had before plus
\* both submitted quantities
C24_NoConsumptionLost ==
    \A id \in DOMAIN entries :
        ( /\ NoRequestInFlight
          /\ run[id].count = 2
          /\ run[id].sap = Strip(run[id].sap0) )
        => OrZero(entries[id].spare_part_quantity_used)
             = OrZero(run[id].used0) + run[id].sum

\* C25: the save of an update_entry request that records no spare-part usage
\* leaves the entry's processed flag, confirmer and timestamp as they are
\* stored, also when a toggle has written them since the request loaded the
\* entry: the flag keeps the value the toggle wrote
C25_PlainUpdateKeepsProcessed ==
    [][\A w \in Workers :
          ( /\ inflight[w].pc = "save"
            /\ inflight'[w].pc = "create"
            /\ ~records_spare_parts(inflight[w].cd[1]) )
          => ProcessedState(entries'[inflight[w].id])
               = ProcessedState(entries[inflight[w].id])]_vars

\* the ids of the history rows of an entry
UpdateIds(id) == {i \in DOMAIN updates : updates[i].entry = id}

\* the history row of the entry that precedes row i, if there is one
PreviousUpdateIds(id, i) ==
    {j \in UpdateIds(id) :
        j < i /\ \A k \in UpdateIds(id) : k < i => k <= j}

\* C26: when all update_entry requests have completed, overlapping or not, an
\* entry with history rows has the status_after of its newest row as its
\* status, and every row's status_before is the status_after of the row
\* before it, or the status the entry was created with for the first row
C26_HistoryChain ==
    NoRequestInFlight
    => \A id \in DOMAIN entries :
          /\ \A i \in UpdateIds(id) :
                (\A k \in UpdateIds(id) : k <= i)
                => entries[id].status = updates[i].status_after
          /\ \A i \in UpdateIds(id) :
                IF PreviousUpdateIds(id, i) = {}
                THEN \E f \in RaceEntryForms :
                        updates[i].status_before = f.status
                ELSE \A j \in PreviousUpdateIds(id, i) :
                        updates[i].status_before = updates[j].status_after

=============================================================================
